---- MODULE Spec2Model ----
(***************************************************************************)
(* Model of plugins/modules/zabbix_screen.py: the Screen class and main(). *)
(*                                                                         *)
(* Strings that are matched by the remote "search" option are sequences of *)
(* characters (small naturals); identifiers are positive integers and the  *)
(* Python None / "" of an id is 0.  An optional integer (graph_width,      *)
(* graph_height) is <<>> for None and <<n>> for the integer n.             *)
(***************************************************************************)
EXTENDS Integers, Sequences, FiniteSets, TLC

VARIABLES
    zbx_api_version,    \* version the remote API reports, e.g. <<5, 4>> for "5.4"
    hosts,              \* remote hosts, in the order host.get returns them
    graphs,             \* remote graphs, in the order graph.get returns them
    screens,            \* remote screens, in the order screen.get returns them
    items,              \* remote screen items, in creation order
    lastid,             \* last identifier handed out by the remote
    batch,              \* module.params['screens']
    run,                \* 1: check-mode run, 2: real run, 3: real run repeated
    pc,                 \* position in main()
    idx,                \* index of zabbix_screen in screens (1-based)
    screen_id,          \* main: screen_id
    hostlist,           \* main: hosts
    graph_ids,          \* main: graph_ids
    h_size,             \* main: h_size
    v_size,             \* main: v_size
    created_screens,    \* main: created_screens
    changed_screens,    \* main: changed_screens
    deleted_screens,    \* main: deleted_screens
    calls,              \* remote calls issued while processing the current spec
    result,             \* outcome of each run
    initial             \* the remote screens and items before the first run

vars == <<zbx_api_version, hosts, graphs, screens, items, lastid, batch, run, pc, idx, screen_id,
          hostlist, graph_ids, h_size, v_size, created_screens, changed_screens,
          deleted_screens, calls, result, initial>>

(***************************************************************************)
(* Bounds.                                                                 *)
(***************************************************************************)
MaxHosts == 3
MaxGraphsInRow == 2
MaxLayoutHosts == 4
MaxLayoutGraphs == 3
MaxLayoutRow == 3

(***************************************************************************)
(* Small helpers.                                                          *)
(***************************************************************************)
Range(s) == {s[i] : i \in 1..Len(s)}

RECURSIVE Concat(_)
Concat(ss) == IF ss = <<>> THEN <<>> ELSE Head(ss) \o Concat(Tail(ss))

RECURSIVE Rep(_, _)
Rep(x, n) == IF n <= 0 THEN <<>> ELSE <<x>> \o Rep(x, n - 1)

CeilDiv(a, b) == (a + b - 1) \div b

\* characters: 1 = "a", 2 = "b", 3 = "A"
Lower(c) == IF c = 3 THEN 1 ELSE c

\* The remote "search" option: case-insensitive LIKE "%needle%".
SearchMatches(hay, needle) ==
    \E off \in 0..(Len(hay) - Len(needle)) :
        \A i \in 1..Len(needle) : Lower(hay[off + i]) = Lower(needle[i])

\* LooseVersion(a) >= LooseVersion(b): the component lists are compared as
\* Python compares lists
RECURSIVE LooseVersionGE(_, _)
LooseVersionGE(a, b) ==
    IF b = <<>> THEN TRUE
    ELSE IF a = <<>> THEN FALSE
    ELSE IF Head(a) # Head(b) THEN Head(a) > Head(b)
    ELSE LooseVersionGE(Tail(a), Tail(b))

WriteOps == {"screen.create", "screen.update", "screen.delete",
             "screenitem.create", "screenitem.delete"}

(***************************************************************************)
(* The remote API, as the module calls it.                                 *)
(***************************************************************************)
\* remote host groups (hostgroup.get returns them in this order)
HostGroups == << [groupid |-> 1, name |-> "g1"], [groupid |-> 2, name |-> "g2"] >>

\* hostgroup.get({'output': 'extend', 'filter': {'name': group_names}})
hostgroup_get(group_names) ==
    SelectSeq(HostGroups, LAMBDA g : g.name \in Range(group_names))

\* host.get({'selectGroups': 'groupid', 'groupids': group_ids, 'monitored_hosts': 1})
host_get(hs, group_ids) ==
    SelectSeq(hs, LAMBDA h : h.monitored /\ (h.groups \cap Range(group_ids)) # {})

\* screen.get({'output': 'extend', 'search': {"name": screen_name}})
screen_get(scr, screen_name) ==
    SelectSeq(scr, LAMBDA s : SearchMatches(s.name, screen_name))

\* graph.get({'output': 'extend', 'search': {'name': graph_name}, 'hostids': host_id})
graph_get(gs, graph_name, host_id) ==
    SelectSeq(gs, LAMBDA g : g.hostid = host_id /\ SearchMatches(g.name, graph_name))

\* screenitem.get({'output': 'extend', 'screenids': screen_id})
screenitem_get(its, sid) == SelectSeq(its, LAMBDA it : it.screenid = sid)

\* screen.create({'name': screen_name, 'hsize': h_size, 'vsize': v_size})
screen_create(scr, id, screen_name, hs, vs) ==
    Append(scr, [screenid |-> id, name |-> screen_name, hsize |-> hs, vsize |-> vs])

\* screen.update({'screenid': screen_id, 'hsize': h_size, 'vsize': v_size})
screen_update(scr, sid, hs, vs) ==
    [i \in 1..Len(scr) |->
        IF scr[i].screenid = sid
        THEN [scr[i] EXCEPT !.hsize = hs, !.vsize = vs]
        ELSE scr[i]]

\* screen.delete([screen_id])
screen_delete(scr, sid) == SelectSeq(scr, LAMBDA s : s.screenid # sid)

\* the remote drops a deleted screen's items with it
screen_delete_items(its, sid) == SelectSeq(its, LAMBDA it : it.screenid # sid)

\* ScreenItem.create(self, ignoreExists=True, data=...): screenitem.create(data)
ScreenItem_create(its, id, data) ==
    Append(its, [screenitemid |-> id, screenid |-> data.screenid,
                 resourceid |-> data.resourceid,
                 width |-> data.width, height |-> data.height,
                 x |-> data.x, y |-> data.y,
                 colspan |-> data.colspan, rowspan |-> data.rowspan])

\* ScreenItem.delete(self, screen_item_id_list): screenitem.delete(ids)
ScreenItem_delete(its, ids) ==
    SelectSeq(its, LAMBDA it : it.screenitemid \notin Range(ids))

RECURSIVE CreateAll(_, _, _)
\* one ScreenItem.create per entry of datas, identifiers handed out in order
CreateAll(its, id, datas) ==
    IF datas = <<>> THEN its
    ELSE CreateAll(ScreenItem_create(its, id + 1, Head(datas)), id + 1, Tail(datas))

(***************************************************************************)
(* class Screen.  A method that can call fail_json returns                 *)
(* [ok |-> FALSE] in that case and [ok |-> TRUE, val |-> ...] otherwise.   *)
(***************************************************************************)
get_host_group_ids(group_names) ==
    IF group_names = <<>> THEN [ok |-> FALSE, val |-> <<>>]
    ELSE LET hostGroup_list == hostgroup_get(group_names)
         IN  IF hostGroup_list = <<>> THEN [ok |-> FALSE, val |-> <<>>]
             ELSE [ok |-> TRUE,
                   val |-> [i \in 1..Len(hostGroup_list) |-> hostGroup_list[i].groupid]]

RECURSIVE InsertByName(_, _)
InsertByName(sorted, h) ==
    IF sorted = <<>> THEN <<h>>
    ELSE IF h.name < Head(sorted).name THEN <<h>> \o sorted
    ELSE <<Head(sorted)>> \o InsertByName(Tail(sorted), h)

RECURSIVE SortedByName(_)
\* sorted(host_list, key=lambda name: name['name']): a stable sort
SortedByName(host_list) ==
    IF host_list = <<>> THEN <<>>
    ELSE InsertByName(SortedByName(SubSeq(host_list, 1, Len(host_list) - 1)),
                      host_list[Len(host_list)])

\* mutant: the hosts of any of the groups are kept
get_host_ids_by_group_ids_any(hs, group_ids, sort) ==
    LET host_list == host_get(hs, group_ids)
    IN  IF host_list = <<>> THEN [ok |-> FALSE, val |-> <<>>]
        ELSE LET ordered == IF sort THEN SortedByName(host_list) ELSE host_list
             IN  [ok |-> TRUE, val |-> [i \in 1..Len(ordered) |-> ordered[i].hostid]]

get_host_ids_by_group_ids(hs, group_ids, sort) ==
    LET host_list == host_get(hs, group_ids)
    IN  IF host_list = <<>> THEN [ok |-> FALSE, val |-> <<>>]
        ELSE LET ordered == IF sort THEN SortedByName(host_list) ELSE host_list
                 kept == SelectSeq(ordered, LAMBDA h : Range(group_ids) \subseteq h.groups)
             IN  [ok |-> TRUE, val |-> [i \in 1..Len(kept) |-> kept[i].hostid]]

get_screen_id(scr, screen_name) ==
    IF screen_name = <<>> THEN [ok |-> FALSE, val |-> 0]
    ELSE LET screen_id_list == screen_get(scr, screen_name)
         IN  IF Len(screen_id_list) >= 1
             THEN [ok |-> TRUE, val |-> screen_id_list[1].screenid]
             ELSE [ok |-> TRUE, val |-> 0]

RECURSIVE get_graphs_by_host_id(_, _, _)
get_graphs_by_host_id(gs, graph_name_list, host_id) ==
    IF graph_name_list = <<>> THEN <<>>
    ELSE LET graphs_list == graph_get(gs, Head(graph_name_list), host_id)
         IN  [i \in 1..Len(graphs_list) |-> graphs_list[i].graphid]
             \o get_graphs_by_host_id(gs, Tail(graph_name_list), host_id)

RECURSIVE get_graph_ids(_, _, _)
\* returns [exit |-> check-mode exit_json(changed=True) was reached,
\*          screens |-> the remote screens afterwards, calls |-> the remote calls issued]
\* mutant: create_screen without its check-mode guard
create_screen_unguarded(scr, cm, id, screen_name, hs, vs) ==
    [exit |-> FALSE, screens |-> screen_create(scr, id, screen_name, hs, vs),
     calls |-> <<"screen.create">>]

create_screen(scr, cm, id, screen_name, hs, vs) ==
    IF cm THEN [exit |-> TRUE, screens |-> scr, calls |-> <<>>]
    ELSE [exit |-> FALSE, screens |-> screen_create(scr, id, screen_name, hs, vs),
          calls |-> <<"screen.create">>]

update_screen(scr, cm, sid, hs, vs) ==
    IF cm THEN [exit |-> TRUE, screens |-> scr, calls |-> <<>>]
    ELSE [exit |-> FALSE, screens |-> screen_update(scr, sid, hs, vs),
          calls |-> <<"screen.update">>]

delete_screen(scr, cm, sid) ==
    IF cm THEN [exit |-> TRUE, screens |-> scr, calls |-> <<>>]
    ELSE [exit |-> FALSE, screens |-> screen_delete(scr, sid),
          calls |-> <<"screen.delete">>]

\* returns [ids |-> graph_id_lists, vsize |-> vsize]
get_graph_ids(gs, hostids, graph_name_list) ==
    IF hostids = <<>> THEN [ids |-> <<>>, vsize |-> 1]
    ELSE LET n == Len(hostids)
             before == get_graph_ids(gs, SubSeq(hostids, 1, n - 1), graph_name_list)
             graph_id_list == get_graphs_by_host_id(gs, graph_name_list, hostids[n])
             size == Len(graph_id_list)
         IN  [ids |-> before.ids \o graph_id_list,
              vsize |-> IF before.vsize < size THEN size ELSE before.vsize]

\* mutant: the single-host rows are rounded as the multi-host rows are
get_hsize_vsize_floor(hostids, vsize, graphs_in_row) ==
    IF Len(hostids) = 1
    THEN LET h == IF vsize <= graphs_in_row THEN vsize ELSE graphs_in_row
         IN  <<h, (vsize \div h) + 1>>
    ELSE IF Len(hostids) > graphs_in_row
    THEN <<graphs_in_row, ((Len(hostids) \div graphs_in_row) + 1) * vsize>>
    ELSE <<Len(hostids), vsize>>

\* returns <<h_size, v_size>>
get_hsize_vsize(hostids, vsize, graphs_in_row) ==
    IF Len(hostids) = 1
    THEN LET h == IF vsize <= graphs_in_row THEN vsize ELSE graphs_in_row
         IN  <<h, ((vsize - 1) \div h) + 1>>
    ELSE IF Len(hostids) > graphs_in_row
    THEN <<graphs_in_row, ((Len(hostids) \div graphs_in_row) + 1) * vsize>>
    ELSE <<Len(hostids), vsize>>

default_width(hostids, width) ==
    IF Len(hostids) < 4
    THEN (IF width = <<>> \/ width[1] < 0 THEN 500 ELSE width[1])
    ELSE (IF width = <<>> \/ width[1] < 0 THEN 200 ELSE width[1])

default_height(height) == IF height = <<>> \/ height[1] < 0 THEN 100 ELSE height[1]

item_data(sid, graph_id, w, h, x, y) ==
    [screenid |-> sid, resourceid |-> graph_id, width |-> w, height |-> h,
     x |-> x, y |-> y, colspan |-> 1, rowspan |-> 1]

\* mutant: only the hosts of the first row get items
create_screen_items_first_row(gs, sid, hostids, graph_name_list, width, height, hsize, graphs_in_row) ==
    LET w == default_width(hostids, width)
        h == default_height(height)
        shown == IF Len(hostids) < graphs_in_row THEN Len(hostids) ELSE graphs_in_row
    IN  IF Len(hostids) = 1
        THEN LET graph_id_list == get_graphs_by_host_id(gs, graph_name_list, hostids[1])
             IN  [k \in 1..Len(graph_id_list) |->
                    item_data(sid, graph_id_list[k], w, h,
                              (k - 1) % hsize, (k - 1) \div hsize)]
        ELSE Concat([k \in 1..shown |->
                LET graph_id_list == get_graphs_by_host_id(gs, graph_name_list, hostids[k])
                IN  [m \in 1..Len(graph_id_list) |->
                        item_data(sid, graph_id_list[m], w, h,
                                  (k - 1) % graphs_in_row,
                                  Len(graph_id_list) * ((k - 1) \div graphs_in_row) + (m - 1))]])

\* the data of every ScreenItem.create call of create_screen_items, in call order
create_screen_items(gs, sid, hostids, graph_name_list, width, height, hsize, graphs_in_row) ==
    LET w == default_width(hostids, width)
        h == default_height(height)
    IN  IF Len(hostids) = 1
        THEN LET graph_id_list == get_graphs_by_host_id(gs, graph_name_list, hostids[1])
             IN  [k \in 1..Len(graph_id_list) |->
                    item_data(sid, graph_id_list[k], w, h,
                              (k - 1) % hsize, (k - 1) \div hsize)]
        ELSE Concat([k \in 1..Len(hostids) |->
                LET graph_id_list == get_graphs_by_host_id(gs, graph_name_list, hostids[k])
                IN  [m \in 1..Len(graph_id_list) |->
                        item_data(sid, graph_id_list[m], w, h,
                                  (k - 1) % graphs_in_row,
                                  Len(graph_id_list) * ((k - 1) \div graphs_in_row) + (m - 1))]])

\* the remote calls of create_screen_items, in call order: for each host the
\* graph.get calls of get_graphs_by_host_id, then that host's ScreenItem.create calls
create_screen_items_calls(gs, hostids, graph_name_list) ==
    Concat([k \in 1..Len(hostids) |->
              Rep("graph.get", Len(graph_name_list))
              \o Rep("screenitem.create",
                     Len(get_graphs_by_host_id(gs, graph_name_list, hostids[k])))])

\* mutant: in check mode delete_screen_items returns False instead of exiting
delete_screen_items_no_exit(its, cm, sid, screen_item_id_list) ==
    IF Len(screen_item_id_list) = 0
    THEN [exit |-> FALSE, deleted |-> TRUE, items |-> its, calls |-> <<>>]
    ELSE LET screen_item_list == screenitem_get(its, sid)
         IN  IF Len(screen_item_list) > 0 /\ ~cm
             THEN [exit |-> FALSE, deleted |-> TRUE,
                   items |-> ScreenItem_delete(its, screen_item_id_list),
                   calls |-> <<"screenitem.get", "screenitem.delete">>]
             ELSE [exit |-> FALSE, deleted |-> FALSE, items |-> its,
                   calls |-> <<"screenitem.get">>]

\* returns [exit |-> check-mode exit_json(changed=True) was reached,
\*          deleted |-> the return value, items |-> the remote items afterwards,
\*          calls |-> the remote calls issued]
delete_screen_items(its, cm, sid, screen_item_id_list) ==
    IF Len(screen_item_id_list) = 0
    THEN [exit |-> FALSE, deleted |-> TRUE, items |-> its, calls |-> <<>>]
    ELSE LET screen_item_list == screenitem_get(its, sid)
         IN  IF Len(screen_item_list) > 0
             THEN IF cm
                  THEN [exit |-> TRUE, deleted |-> FALSE, items |-> its,
                        calls |-> <<"screenitem.get">>]
                  ELSE [exit |-> FALSE, deleted |-> TRUE,
                        items |-> ScreenItem_delete(its, screen_item_id_list),
                        calls |-> <<"screenitem.get", "screenitem.delete">>]
             ELSE [exit |-> FALSE, deleted |-> FALSE, items |-> its,
                   calls |-> <<"screenitem.get">>]

\* main, lines 411-413 and 442-446: the ids and the resource ids of a screen's items
screen_item_ids(screen_item_list) ==
    [i \in 1..Len(screen_item_list) |-> screen_item_list[i].screenitemid]

\* mutant: the items' own ids are taken for their resource ids
resource_ids_own(screen_item_list) ==
    [i \in 1..Len(screen_item_list) |-> screen_item_list[i].screenitemid]

resource_ids(screen_item_list) ==
    [i \in 1..Len(screen_item_list) |-> screen_item_list[i].resourceid]

(***************************************************************************)
(* Inputs: the remote state before the first run and the module parameters.*)
(***************************************************************************)
\* host names are compared by sorted(); a name is modelled by its rank
HostUniverse ==
    { [hostid |-> 1, name |-> 2, groups |-> {1, 2}, monitored |-> TRUE],
      [hostid |-> 2, name |-> 1, groups |-> {1, 2}, monitored |-> TRUE],
      [hostid |-> 3, name |-> 3, groups |-> {1},    monitored |-> TRUE],
      [hostid |-> 4, name |-> 0, groups |-> {1, 2}, monitored |-> FALSE] }

UniverseGraphs ==
    << [graphid |-> 11, hostid |-> 1, name |-> <<1, 2>>],
       [graphid |-> 12, hostid |-> 1, name |-> <<2>>],
       [graphid |-> 21, hostid |-> 2, name |-> <<3, 2>>],
       [graphid |-> 31, hostid |-> 3, name |-> <<2>>],
       [graphid |-> 32, hostid |-> 3, name |-> <<2, 1>>],
       [graphid |-> 41, hostid |-> 4, name |-> <<1, 2>>] >>

HostConfigs ==
    { hs \in UNION { [1..n -> HostUniverse] : n \in 1..MaxHosts } :
        \A i, j \in 1..Len(hs) : i # j => hs[i] # hs[j] }

InitItem(id, sid, rid, x) ==
    [screenitemid |-> id, screenid |-> sid, resourceid |-> rid,
     width |-> 320, height |-> 240, x |-> x, y |-> 0, colspan |-> 1, rowspan |-> 1]

InitScreen(id, name, hs) == [screenid |-> id, name |-> name, hsize |-> hs, vsize |-> 1]

ScreenConfigs ==
    { [screens |-> <<>>, items |-> <<>>],
      [screens |-> <<InitScreen(101, <<1, 2>>, 1)>>, items |-> <<>>],
      [screens |-> <<InitScreen(101, <<1, 2>>, 1)>>,
       items |-> <<InitItem(102, 101, 11, 0)>>],
      [screens |-> <<InitScreen(101, <<3>>, 2)>>,
       items |-> <<InitItem(102, 101, 11, 0), InitItem(103, 101, 12, 1)>>],
      [screens |-> <<InitScreen(101, <<1, 2>>, 1), InitScreen(104, <<1>>, 2)>>,
       items |-> <<InitItem(102, 101, 21, 0), InitItem(105, 104, 11, 0),
                   InitItem(106, 104, 12, 1)>>] }

ScreenSpec(name, state, host_group, graph_names, graphs_in_row, width, height, sort) ==
    [screen_name |-> name, state |-> state, host_group |-> host_group,
     graph_names |-> graph_names, graphs_in_row |-> graphs_in_row,
     graph_width |-> width, graph_height |-> height, sort |-> sort]

\* the fields an absent spec never reads keep their defaults
AbsentSpecs ==
    { ScreenSpec(n, "absent", <<>>, <<>>, 3, <<>>, <<>>, FALSE) :
        n \in {<<>>, <<1>>, <<1, 2>>} }

SizeChoices == { <<<<>>, <<>>>>, <<<<300>>, <<-1>>>>, <<<<-1>>, <<0>>>> }

PresentSpecs ==
    { ScreenSpec(n, "present", hg, gn, g, sz[1], sz[2], st) :
        n \in {<<1>>, <<1, 2>>},
        hg \in {<<"g1">>, <<"g1", "g2">>, <<"g1", "gx">>},
        gn \in {<<<<1>>>>, <<<<2>>>>, <<<<1>>, <<2>>>>},
        g \in 1..MaxGraphsInRow,
        sz \in SizeChoices,
        st \in BOOLEAN }
    \cup
    \* specs that fail before the remaining fields are read
    { ScreenSpec(n, "present", hg, <<<<1>>>>, 3, <<>>, <<>>, FALSE) :
        n \in {<<1>>, <<1, 2>>}, hg \in {<<>>, <<"gx">>} }
    \cup
    { ScreenSpec(<<>>, "present", <<"g1">>, <<<<1>>>>, 3, <<>>, <<>>, FALSE) }

\* the specs of the batches of two screens
BatchSpecs ==
    { ScreenSpec(n, "absent", <<>>, <<>>, 3, <<>>, <<>>, FALSE) : n \in {<<1>>, <<1, 2>>} }
    \cup
    { ScreenSpec(n, "present", hg, <<<<2>>>>, 3, <<>>, <<>>, FALSE) :
        n \in {<<1>>, <<1, 2>>}, hg \in {<<"g1">>, <<"g1", "g2">>, <<"gx">>} }

Batches ==
    { <<s>> : s \in AbsentSpecs \cup PresentSpecs }
    \cup { <<s, t>> : s \in BatchSpecs, t \in BatchSpecs }

\* versions of the remote API: "5.2", "5.4", "6.0"
ZabbixVersions == {<<5, 2>>, <<5, 4>>, <<6, 0>>}

Init ==
    /\ zbx_api_version \in ZabbixVersions
    /\ hosts \in HostConfigs
    /\ graphs = UniverseGraphs
    /\ \E c \in ScreenConfigs : screens = c.screens /\ items = c.items
    /\ lastid = 200
    /\ batch \in Batches
    /\ run = 1
    /\ pc = "start"
    /\ idx = 1
    /\ screen_id = 0
    /\ hostlist = <<>>
    /\ graph_ids = <<>>
    /\ h_size = 0
    /\ v_size = 0
    /\ created_screens = <<>>
    /\ changed_screens = <<>>
    /\ deleted_screens = <<>>
    /\ calls = <<>>
    /\ result = [r \in 1..3 |-> "none"]
    /\ initial = <<screens, items>>

(***************************************************************************)
(* main()                                                                  *)
(***************************************************************************)
check_mode == run = 1

zabbix_screen == batch[idx]

remote == <<zbx_api_version, hosts, graphs, initial>>
locals == <<screen_id, hostlist, graph_ids, h_size, v_size>>
lists == <<created_screens, changed_screens, deleted_screens>>

\* module.fail_json(...)
FailJson(cs) ==
    /\ pc' = "done"
    /\ result' = [result EXCEPT ![run] = "failed"]
    /\ calls' = cs

\* module.exit_json(changed=True) of a check-mode guard
ExitChanged(cs) ==
    /\ pc' = "done"
    /\ result' = [result EXCEPT ![run] = "changed"]
    /\ calls' = cs

\* lines 391-399: the Screens feature is gone from version 5.4 on
CheckVersion ==
    /\ pc = "start"
    /\ IF LooseVersionGE(zbx_api_version, <<5, 4>>)
       THEN FailJson(<<>>)
       ELSE /\ pc' = "loop"
            /\ UNCHANGED <<result, calls>>
    /\ UNCHANGED <<remote, screens, items, lastid, batch, run, idx, locals, lists>>

\* lines 401-405: the next screen of the batch is looked up
NextScreen ==
    /\ pc = "loop"
    /\ idx <= Len(batch)
    /\ LET r == get_screen_id(screens, zabbix_screen.screen_name)
       IN  IF ~r.ok
           THEN /\ FailJson(<<>>)
                /\ UNCHANGED screen_id
           ELSE /\ screen_id' = r.val
                /\ calls' = <<"screen.get">>
                /\ pc' = IF zabbix_screen.state = "absent" THEN "absent" ELSE "present"
                /\ UNCHANGED result
    /\ UNCHANGED <<remote, screens, items, lastid, batch, run, idx, lists,
                   hostlist, graph_ids, h_size, v_size>>

\* lines 407-417: state == "absent"
AbsentScreen ==
    /\ pc = "absent"
    /\ IF screen_id = 0
       THEN /\ pc' = "loop"
            /\ idx' = idx + 1
            /\ UNCHANGED <<screens, items, deleted_screens, calls, result>>
       ELSE LET screen_item_list == screenitem_get(items, screen_id)
                screen_item_id_list == screen_item_ids(screen_item_list)
                d == delete_screen_items(items, check_mode, screen_id, screen_item_id_list)
                s == delete_screen(screens, check_mode, screen_id)
                cs == calls \o <<"screenitem.get">> \o d.calls
            IN  IF d.exit
                THEN /\ ExitChanged(cs)
                     /\ UNCHANGED <<screens, items, deleted_screens, idx>>
                ELSE IF s.exit
                THEN /\ ExitChanged(cs \o s.calls)
                     /\ items' = d.items
                     /\ UNCHANGED <<screens, deleted_screens, idx>>
                ELSE /\ screens' = s.screens
                     /\ items' = screen_delete_items(d.items, screen_id)
                     /\ calls' = cs \o s.calls
                     /\ deleted_screens' = Append(deleted_screens, zabbix_screen.screen_name)
                     /\ pc' = "loop"
                     /\ idx' = idx + 1
                     /\ UNCHANGED result
    /\ UNCHANGED <<remote, lastid, batch, run, locals, created_screens, changed_screens>>

\* lines 419-432: hosts, graphs and the screen's size are resolved
ResolveHosts ==
    /\ pc = "present"
    /\ LET host_group == zabbix_screen.host_group
           graph_names == zabbix_screen.graph_names
           gr == get_host_group_ids(host_group)
           hr == get_host_ids_by_group_ids(hosts, gr.val, zabbix_screen.sort)
           g == get_graph_ids(graphs, hr.val, graph_names)
           hv == get_hsize_vsize(hr.val, g.vsize, zabbix_screen.graphs_in_row)
       IN  IF ~gr.ok
           THEN /\ FailJson(calls \o (IF host_group = <<>> THEN <<>> ELSE <<"hostgroup.get">>))
                /\ UNCHANGED <<hostlist, graph_ids, h_size, v_size>>
           ELSE IF ~hr.ok
           THEN /\ FailJson(calls \o <<"hostgroup.get", "host.get">>)
                /\ UNCHANGED <<hostlist, graph_ids, h_size, v_size>>
           ELSE IF hr.val = <<>>
           THEN /\ FailJson(calls \o <<"hostgroup.get", "host.get">>)
                /\ hostlist' = hr.val
                /\ UNCHANGED <<graph_ids, h_size, v_size>>
           ELSE /\ hostlist' = hr.val
                /\ graph_ids' = g.ids
                /\ h_size' = hv[1]
                /\ v_size' = hv[2]
                /\ calls' = calls \o <<"hostgroup.get", "host.get">>
                             \o Rep("graph.get", Len(hr.val) * Len(graph_names))
                /\ pc' = "reconcile"
                /\ UNCHANGED result
    /\ UNCHANGED <<remote, screens, items, lastid, batch, run, idx, screen_id, lists>>

\* lines 434-438: the screen does not exist
CreateScreen ==
    /\ pc = "reconcile"
    /\ screen_id = 0
    /\ LET sid == lastid + 1
           c == create_screen(screens, check_mode, sid, zabbix_screen.screen_name,
                              h_size, v_size)
           datas == create_screen_items(graphs, sid, hostlist, zabbix_screen.graph_names,
                                        zabbix_screen.graph_width,
                                        zabbix_screen.graph_height,
                                        h_size, zabbix_screen.graphs_in_row)
       IN  IF c.exit
           THEN /\ ExitChanged(calls \o c.calls)
                /\ UNCHANGED <<screens, items, lastid, idx, screen_id, created_screens>>
           ELSE /\ screens' = c.screens
                /\ items' = CreateAll(items, sid, datas)
                /\ lastid' = sid + Len(datas)
                /\ screen_id' = sid
                /\ calls' = calls \o c.calls
                             \o create_screen_items_calls(graphs, hostlist,
                                                          zabbix_screen.graph_names)
                /\ created_screens' = Append(created_screens, zabbix_screen.screen_name)
                /\ pc' = "loop"
                /\ idx' = idx + 1
                /\ UNCHANGED result
    /\ UNCHANGED <<remote, batch, run, hostlist, graph_ids, h_size, v_size,
                   changed_screens, deleted_screens>>

\* lines 439-454: the screen exists
UpdateScreen ==
    /\ pc = "reconcile"
    /\ screen_id # 0
    /\ LET screen_item_list == screenitem_get(items, screen_id)
           screen_item_id_list == screen_item_ids(screen_item_list)
           resource_id_list == resource_ids(screen_item_list)
           d == delete_screen_items(items, check_mode, screen_id, screen_item_id_list)
           u == update_screen(screens, check_mode, screen_id, h_size, v_size)
           datas == create_screen_items(graphs, screen_id, hostlist,
                                        zabbix_screen.graph_names,
                                        zabbix_screen.graph_width,
                                        zabbix_screen.graph_height,
                                        h_size, zabbix_screen.graphs_in_row)
           cs == calls \o <<"screenitem.get">>
       IN  IF graph_ids = resource_id_list
           THEN /\ calls' = cs
                /\ pc' = "loop"
                /\ idx' = idx + 1
                /\ UNCHANGED <<screens, items, lastid, changed_screens, result>>
           ELSE IF d.exit
           THEN /\ ExitChanged(cs \o d.calls)
                /\ UNCHANGED <<screens, items, lastid, changed_screens, idx>>
           ELSE IF d.deleted /\ u.exit
           THEN /\ ExitChanged(cs \o d.calls \o u.calls)
                /\ items' = d.items
                /\ UNCHANGED <<screens, lastid, changed_screens, idx>>
           ELSE IF d.deleted
           THEN /\ screens' = u.screens
                /\ items' = CreateAll(d.items, lastid, datas)
                /\ lastid' = lastid + Len(datas)
                /\ calls' = cs \o d.calls \o u.calls
                             \o create_screen_items_calls(graphs, hostlist,
                                                          zabbix_screen.graph_names)
                /\ changed_screens' = Append(changed_screens, zabbix_screen.screen_name)
                /\ pc' = "loop"
                /\ idx' = idx + 1
                /\ UNCHANGED result
           ELSE /\ calls' = cs \o d.calls
                /\ items' = d.items
                /\ pc' = "loop"
                /\ idx' = idx + 1
                /\ UNCHANGED <<screens, lastid, changed_screens, result>>
    /\ UNCHANGED <<remote, batch, run, locals, created_screens, deleted_screens>>

\* lines 456-466: the run's result
ExitJson ==
    /\ pc = "loop"
    /\ idx > Len(batch)
    /\ pc' = "done"
    /\ result' = [result EXCEPT ![run] =
                    IF created_screens # <<>> \/ changed_screens # <<>>
                       \/ deleted_screens # <<>>
                    THEN "changed" ELSE "unchanged"]
    /\ UNCHANGED <<remote, screens, items, lastid, batch, run, idx, locals, lists, calls>>

\* the module is invoked again with the same parameters: first in check mode,
\* then for real, then for real once more
NextRun ==
    /\ pc = "done"
    /\ run < 3
    /\ run' = run + 1
    /\ pc' = "start"
    /\ idx' = 1
    /\ screen_id' = 0
    /\ hostlist' = <<>>
    /\ graph_ids' = <<>>
    /\ h_size' = 0
    /\ v_size' = 0
    /\ created_screens' = <<>>
    /\ changed_screens' = <<>>
    /\ deleted_screens' = <<>>
    /\ calls' = <<>>
    /\ UNCHANGED <<remote, screens, items, lastid, batch, result>>

Next ==
    \/ CheckVersion
    \/ NextScreen
    \/ AbsentScreen
    \/ ResolveHosts
    \/ CreateScreen
    \/ UpdateScreen
    \/ ExitJson
    \/ NextRun

Spec == Init /\ [][Next]_vars

(***************************************************************************)
(* The layout of a new screen: one real run that creates one screen for    *)
(* 1..MaxLayoutHosts hosts of group g1, each with 0..MaxLayoutGraphs       *)
(* graphs that match the one graph name.                                   *)
(***************************************************************************)
LayoutHost(i) == [hostid |-> i, name |-> i, groups |-> {1}, monitored |-> TRUE]

LayoutGraphs(cnt) ==
    Concat([i \in 1..Len(cnt) |->
              [j \in 1..cnt[i] |-> [graphid |-> 10 * i + j, hostid |-> i, name |-> <<1>>]]])

LayoutInit ==
    /\ zbx_api_version \in ZabbixVersions
    /\ \E n \in 1..MaxLayoutHosts :
         \E cnt \in [1..n -> 0..MaxLayoutGraphs] :
            /\ hosts = [i \in 1..n |-> LayoutHost(i)]
            /\ graphs = LayoutGraphs(cnt)
    /\ screens = <<>>
    /\ items = <<>>
    /\ lastid = 200
    /\ \E g \in 1..MaxLayoutRow :
         batch = <<ScreenSpec(<<1>>, "present", <<"g1">>, <<<<1>>>>, g, <<>>, <<>>, FALSE)>>
    /\ run = 2
    /\ pc = "start"
    /\ idx = 1
    /\ screen_id = 0
    /\ hostlist = <<>>
    /\ graph_ids = <<>>
    /\ h_size = 0
    /\ v_size = 0
    /\ created_screens = <<>>
    /\ changed_screens = <<>>
    /\ deleted_screens = <<>>
    /\ calls = <<>>
    /\ result = [r \in 1..3 |-> "none"]
    /\ initial = <<screens, items>>

LayoutNext ==
    \/ CheckVersion
    \/ NextScreen
    \/ ResolveHosts
    \/ CreateScreen
    \/ ExitJson

LayoutSpec == LayoutInit /\ [][LayoutNext]_vars

(***************************************************************************)
(* Properties.                                                             *)
(***************************************************************************)
NoWrites(cs) == \A i \in 1..Len(cs) : cs[i] \notin WriteOps

\* the resource ids of the items attached to screen sid, in the remote's order
AttachedResources(sid) ==
    LET its == SelectSeq(items, LAMBDA it : it.screenid = sid)
    IN  [i \in 1..Len(its) |-> its[i].resourceid]

NothingListed ==
    created_screens = <<>> /\ changed_screens = <<>> /\ deleted_screens = <<>>

\* C1: after a successful real run of a single present-state spec, the same
\* run repeated on the remote state it left issues no write, lists no screen
\* as created, updated or deleted, and ends with changed=False.
C1_Idempotent ==
    (run = 3 /\ Len(batch) = 1 /\ batch[1].state = "present"
        /\ result[2] \in {"changed", "unchanged"})
    => /\ NoWrites(calls)
       /\ NothingListed
       /\ result[3] \in {"none", "unchanged"}
       /\ pc = "done" => result[3] = "unchanged"

C1_Witness ==
    /\ run = 3 /\ pc = "done" /\ Len(batch) = 1 /\ batch[1].state = "present"
    /\ result[2] = "changed" /\ result[3] = "unchanged"
    /\ Len(hostlist) = 2 /\ Len(graph_ids) = 3
    /\ AttachedResources(screen_id) = graph_ids

\* C2: when the screen exists and the freshly resolved graph ids equal the
\* resource ids of its items, processing the spec changes neither the remote
\* screens nor the items, issues no write and does not list the screen as
\* updated, whatever the sizes asked for.
C2_DiffCorrect ==
    [][(pc = "reconcile" /\ screen_id # 0 /\ graph_ids = AttachedResources(screen_id))
        => /\ screens' = screens
           /\ items' = items
           /\ lastid' = lastid
           /\ NoWrites(calls')
           /\ changed_screens' = changed_screens
           /\ created_screens' = created_screens
           /\ pc' = "loop" /\ idx' = idx + 1]_vars

C2_Witness ==
    /\ run = 2 /\ pc = "loop" /\ idx = 2 /\ batch[1].state = "present"
    /\ screen_id # 0 /\ graph_ids # <<>>
    /\ graph_ids = AttachedResources(screen_id)
    /\ NothingListed
    /\ initial = <<screens, items>>
    /\ \A i \in 1..Len(items) :
          items[i].screenid = screen_id
          => /\ items[i].width # default_width(hostlist, batch[1].graph_width)
             /\ items[i].height # default_height(batch[1].graph_height)
    /\ \E i \in 1..Len(screens) :
          screens[i].screenid = screen_id /\ screens[i].hsize # h_size

\* C3: a check-mode run issues no write: its calls hold no create, update or
\* delete, and the remote screens and items stay as they were.
C3_DryRunNoWrite ==
    run = 1 => /\ NoWrites(calls)
               /\ <<screens, items>> = initial
               /\ NothingListed

C3_Witness ==
    /\ run = 1 /\ pc = "done" /\ result[1] = "changed"
    /\ Len(batch) = 2 /\ idx = 2
    /\ batch[idx].state = "present" /\ screen_id = 0 /\ graph_ids # <<>>

\* C4 as stated: the check-mode run and the real run started from the same
\* remote state end with the same changed flag.
C4_SameFlag ==
    (run = 2 /\ pc = "done" /\ result[1] \in {"changed", "unchanged"})
    => result[2] = result[1]

\* C4 amended: the two runs end alike whenever the real run ends without a
\* fatal error; when the real run fails, the check-mode run fails too if
\* nothing was written before the failure and reports changed=True otherwise.
C4_SameFlagUnlessFailed ==
    (run = 2 /\ pc = "done")
    => /\ result[2] # "failed" => result[1] = result[2]
       /\ result[2] = "failed"
            => result[1] = (IF NothingListed THEN "failed" ELSE "changed")

C4_Witness ==
    /\ run = 2 /\ pc = "done" /\ Len(batch) = 2 /\ idx = 3
    /\ result[1] = "changed" /\ result[2] = "changed"
    /\ created_screens # <<>> /\ deleted_screens # <<>>

\* the largest number of graphs get_graph_ids finds for one host of the
\* spec being processed (1 when no host has any)
MaxGraphsPerHost ==
    get_graph_ids(graphs, hostlist, zabbix_screen.graph_names).vsize

\* C5: for more hosts than graphs_in_row, the screen has graphs_in_row
\* columns and ceil(hostCount / graphs_in_row) * maxGraphsPerHost rows.
C5_MultiHostLayout ==
    (pc = "reconcile" /\ Len(hostlist) > zabbix_screen.graphs_in_row)
    => /\ h_size = zabbix_screen.graphs_in_row
       /\ v_size = CeilDiv(Len(hostlist), zabbix_screen.graphs_in_row) * MaxGraphsPerHost

\* C6: for one host, the screen has min(maxGraphsPerHost, graphs_in_row)
\* columns and ceil(maxGraphsPerHost / columns) rows, where maxGraphsPerHost
\* is the number of graphs found for the host, or 1 when none is found; so
\* maxGraphsPerHost columns and one row when it does not exceed graphs_in_row.
C6_SingleHostLayout ==
    (pc = "reconcile" /\ Len(hostlist) = 1)
    => LET found == Len(SelectSeq(graphs, LAMBDA g : g.hostid = hostlist[1]))
           m == MaxGraphsPerHost
           row == zabbix_screen.graphs_in_row
           columns == IF m < row THEN m ELSE row
       IN  /\ m = (IF found = 0 THEN 1 ELSE found)
           /\ h_size = columns
           /\ v_size = CeilDiv(m, columns)
           /\ m <= row => (h_size = m /\ v_size = 1)

C6_Witness ==
    /\ pc = "reconcile" /\ Len(hostlist) = 1
    /\ Len(graph_ids) = 3 /\ zabbix_screen.graphs_in_row = 2
    /\ h_size = 2 /\ v_size = 2

\* C7: the present path goes on to resolve hosts only when every name of
\* host_group is the name of a remote host group.
C7_AllGroupsResolve ==
    pc = "reconcile"
    => \A i \in 1..Len(zabbix_screen.host_group) :
          \E j \in 1..Len(HostGroups) :
             HostGroups[j].name = zabbix_screen.host_group[i]

HostById(id) == CHOOSE h \in Range(hosts) : h.hostid = id
PositionOf(id) == CHOOSE i \in 1..Len(hosts) : hosts[i].hostid = id

\* C8: once the group ids are resolved, the hosts resolved are exactly the
\* monitored hosts that belong to every one of them, by ascending name when
\* sort is set and in the remote's order otherwise; when there is none the run
\* fails without a write.
C8_HostResolution ==
    [][(pc = "present" /\ get_host_group_ids(zabbix_screen.host_group).ok)
        => LET gids == Range(get_host_group_ids(zabbix_screen.host_group).val)
               members == {h \in Range(hosts) : h.monitored /\ gids \subseteq h.groups}
           IN  IF members = {}
               THEN /\ pc' = "done"
                    /\ result'[run] = "failed"
                    /\ NoWrites(calls')
                    /\ screens' = screens
                    /\ items' = items
               ELSE /\ pc' = "reconcile"
                    /\ Range(hostlist') = {h.hostid : h \in members}
                    /\ Len(hostlist') = Cardinality(members)
                    /\ \A i, j \in 1..Len(hostlist') :
                          i < j =>
                            IF zabbix_screen.sort
                            THEN HostById(hostlist'[i]).name <= HostById(hostlist'[j]).name
                            ELSE PositionOf(hostlist'[i]) < PositionOf(hostlist'[j])]_vars

C8_Witness ==
    /\ pc = "reconcile"
    /\ zabbix_screen.host_group = <<"g1", "g2">>
    /\ zabbix_screen.sort
    /\ Len(hosts) = 3 /\ Len(hostlist) = 2
    /\ PositionOf(hostlist[1]) > PositionOf(hostlist[2])
    /\ \E i \in 1..Len(hosts) :
          /\ hosts[i].monitored
          /\ hosts[i].groups = {1}
          /\ hosts[i].hostid \notin Range(hostlist)

\* C9: the screen a spec works on is one named exactly screen_name.
C9_ExactName ==
    (pc \in {"absent", "present", "reconcile"} /\ screen_id # 0)
    => \E i \in 1..Len(screens) :
          screens[i].screenid = screen_id
          /\ screens[i].name = zabbix_screen.screen_name

\* C10: an absent spec whose screen does not exist makes no call but the
\* lookup and lists nothing as deleted; when the screen exists, a real run
\* deletes its items, then the screen, and lists it as deleted.
C10_AbsentPath ==
    [][pc = "absent"
        => LET named == {i \in 1..Len(screens) : screens[i].name = zabbix_screen.screen_name}
           IN  IF named = {}
               THEN /\ calls' = <<"screen.get">>
                    /\ pc' = "loop"
                    /\ deleted_screens' = deleted_screens
                    /\ screens' = screens
                    /\ items' = items
               ELSE ~check_mode
                    => /\ \A i \in 1..Len(screens') :
                             screens'[i].name # zabbix_screen.screen_name
                       /\ \A i \in 1..Len(calls') :
                             (calls'[i] = "screen.delete" /\ AttachedResources(screen_id) # <<>>)
                             => \E j \in 1..(i - 1) : calls'[j] = "screenitem.delete"
                       /\ deleted_screens' = Append(deleted_screens, zabbix_screen.screen_name)]_vars

\* C11: the items created for a new screen of two or more hosts lie in
\* pairwise distinct cells, each inside the grid of h_size columns and v_size
\* rows computed for the same hosts, graphs and graphs_in_row.
C11_DistinctCellsInGrid ==
    (pc = "loop" /\ idx = 2 /\ created_screens # <<>> /\ Len(hostlist) >= 2)
    => LET its == screenitem_get(items, screen_id)
       IN  /\ \A i, j \in 1..Len(its) :
                i # j => <<its[i].x, its[i].y>> # <<its[j].x, its[j].y>>
           /\ \A i \in 1..Len(its) :
                /\ 0 <= its[i].x /\ its[i].x < h_size
                /\ 0 <= its[i].y /\ its[i].y < v_size

====
